---- MODULE Spec2Model ----
(***************************************************************************)
(* A model of the suffix-tree pipeline of a2q2.py, a2q3.py and a2q4.py:    *)
(* Ukkonen's construction (SuffixTree.build) taken one loop iteration at a *)
(* time, the suffix-array extraction, the BWT, the Part I and Part II      *)
(* streams, the Fibonacci integer coder, the Huffman coder, the two main   *)
(* entry points up to the construction of the tree, and mod_exp of         *)
(* a2q1.py.  Symbols are code points ('$' = 36, 'a' = 97); text positions  *)
(* are 0-based as in the source, so T(k) is text[k].                       *)
(***************************************************************************)
EXTENDS Integers, Sequences, FiniteSets, TLC

\* ---------------------------------------------------------------- bounds
MaxLen == 7          \* longest text, sentinel included
MaxCalls == 2        \* suffix_array() calls on one built tree
MaxFibN == 100000     \* largest argument of fibonacci_encode
MaxHuffLen == 5      \* longest argument of build_huffman_codes
MaxFileLen == 5      \* longest input file of a main, in symbols
MaxBase == 6         \* largest base of mod_exp
MaxExponent == 6     \* largest exponent of mod_exp
MaxModulus == 7      \* largest modulus of mod_exp

\* ------------------------------------------------------------- constants
Sentinel == 36       \* '$'
Alphabet == {97, 98} \* 'a', 'b'
HuffAlphabet == {36, 97, 98, 99}
\* "banana$", the worked example, and "aabaabcaabaab$", a text over three
\* letters on which the active node of build() becomes a leaf.
Banana == <<98, 97, 110, 97, 110, 97, 36>>
DeepText == <<97, 97, 98, 97, 97, 98, 99, 97, 97, 98, 97, 97, 98, 36>>
\* "\u00e9a$": a text with a symbol outside the 7-bit range.
WideText == <<233, 97, 36>>
NoChar == 0          \* None as active_edge_char / as a children key
NoNode == 0          \* None as a node reference
RootId == 1          \* Node 1 is the root
NoStart == -1        \* start of a node without incoming edge

VARIABLES
    text,              \* SuffixTree.text
    nodes,             \* the Node objects, indexed by Node.id
    next_id,           \* SuffixTree.next_id
    active_node,       \* id of SuffixTree.active_node
    active_edge_char,  \* SuffixTree.active_edge_char
    active_length,     \* SuffixTree.active_length
    remainder,         \* SuffixTree.remainder
    leaf_end,          \* SuffixTree.leaf_end.val, the one shared EndRef
    last_new_internal, \* id of SuffixTree.last_new_internal
    i,                 \* the phase index of build()'s for loop
    pc,                \* position in build(): "for", "while", "phase_end", "done"
    last_rule,         \* what the last loop iteration of build() did
    sa,                \* the list last returned by suffix_array()
    sa_calls,          \* number of suffix_array() calls so far
    raised,            \* exception raised by the last call, "" if none
    bwt,               \* the string last returned by bwt_from_sa(text, sa)
    part2,             \* the bits last returned by encode_part_II_from_q3_tree
    fib_n,             \* argument of fibonacci_encode
    fib_code,          \* codeword returned by fibonacci_encode(fib_n)
    huff_text,         \* argument of build_huffman_codes
    huff_codes,        \* code table returned by build_huffman_codes(huff_text)
    call,              \* the standalone coder call: "off", "fib", "huff", "..._returned"
    part1,             \* the bit fields last returned by encode_part_I_bwt
    prog,              \* who constructs the tree: main of "a2q3" or "a2q4", or a
                       \* direct caller of "SuffixTree"(text)
    file_raw,          \* f.read() of the input file of a main; the text argument
                       \* of a direct caller
    me_base,           \* arguments of mod_exp
    me_exponent,
    me_modulus,
    me_result          \* value returned by mod_exp

treeVars == <<text, nodes, next_id, active_node, active_edge_char, active_length,
              remainder, leaf_end, last_new_internal>>
vars == <<text, nodes, next_id, active_node, active_edge_char, active_length,
          remainder, leaf_end, last_new_internal, i, pc, last_rule, sa, sa_calls,
          raised, bwt, part2, fib_n, fib_code, huff_text, huff_codes, call, part1,
          prog, file_raw, me_base, me_exponent, me_modulus, me_result>>
buildVars == <<i, pc, last_rule>>
outVars == <<sa, sa_calls, raised, bwt, part2, part1>>
coderVars == <<fib_n, fib_code, huff_text, huff_codes, call>>
entryVars == <<prog, file_raw>>
modVars == <<me_base, me_exponent, me_modulus, me_result>>

\* ------------------------------------------------------------ sequences
RECURSIVE SeqsOver(_, _)
SeqsOver(S, n) ==
    IF n = 0 THEN {<<>>}
    ELSE {Append(s, c) : s \in SeqsOver(S, n - 1), c \in S}

\* Texts with a unique final sentinel, of length 1..MaxLen.
Texts == UNION {{Append(s, Sentinel) : s \in SeqsOver(Alphabet, n)} : n \in 0..(MaxLen - 1)}

N == Len(text)
T(k) == text[k + 1]

\* ---------------------------------------------------------------- nodes
\* Node.__init__: no children, no suffix link.  end is either the shared
\* EndRef (ref = TRUE) or a fixed integer (val).
NewNode(start, ref, val) ==
    [children |-> <<>>, suffix_link |-> NoNode, start |-> start,
     end |-> [ref |-> ref, val |-> val]]

EndVal(nd, le) == IF nd.end.ref THEN le ELSE nd.end.val

\* SuffixTree._edge_length, on node table ns with the shared end at le.
EdgeLength(ns, le, n) ==
    IF ns[n].start = NoStart THEN 0 ELSE EndVal(ns[n], le) - ns[n].start + 1

\* ----------------------------------------------------------------- Init
\* Nothing has been called on the tree yet.
OutInit ==
    /\ sa = <<>>
    /\ sa_calls = 0
    /\ raised = ""
    /\ bwt = <<>>
    /\ part2 = <<>>
    /\ part1 = <<>>

\* The standalone coders are not exercised by this specification.
CoderOff ==
    /\ fib_n = 1
    /\ fib_code = <<>>
    /\ huff_text = <<>>
    /\ huff_codes = <<>>
    /\ call = "off"

\* mod_exp is not exercised by this specification.
ModOff ==
    /\ me_base = 0
    /\ me_exponent = 0
    /\ me_modulus = 1
    /\ me_result = 0

\* SuffixTree.__init__
Init ==
    /\ text \in Texts \cup {Banana, DeepText, WideText}
    /\ nodes = <<[NewNode(NoStart, FALSE, -1) EXCEPT !.suffix_link = RootId]>>
    /\ next_id = 2
    /\ active_node = RootId
    /\ active_edge_char = NoChar
    /\ active_length = 0
    /\ remainder = 0
    /\ leaf_end = -1
    /\ last_new_internal = NoNode
    /\ i = 0
    /\ pc = "for"
    /\ last_rule = "none"
    /\ OutInit
    /\ CoderOff
    /\ ModOff
    /\ prog = "SuffixTree"
    /\ file_raw = text

\* ---------------------------------------------------------------- build
\* for i in range(self.N): phase start.
PhaseStart ==
    /\ pc = "for"
    /\ i < N
    /\ leaf_end' = i
    /\ remainder' = remainder + 1
    /\ last_new_internal' = NoNode
    /\ pc' = "while"
    /\ last_rule' = "phase_start"
    /\ UNCHANGED <<text, nodes, next_id, active_node, active_edge_char, active_length,
                   i, outVars, coderVars, entryVars, modVars>>

\* Mutation: the active edge symbol is not reset when active_length is 0.
EdgeCharNowStale == active_edge_char

\* if self.active_length == 0: self.active_edge_char = self.text[i]
EdgeCharNow == IF active_length = 0 THEN T(i) ELSE active_edge_char

\* Mutation: the active edge symbol is recomputed with the remainder as it
\* was before the decrement.
ActiveAfterRule2Stale(ns, aec, rem) ==
    IF active_node = RootId /\ active_length > 0
    THEN LET start_index == i - (rem + 1) + 1
         IN  <<active_node,
               IF start_index < N THEN T(start_index) ELSE aec,
               active_length - 1>>
    ELSE <<IF ns[active_node].suffix_link # NoNode
              THEN ns[active_node].suffix_link ELSE RootId,
           aec, active_length>>

\* The active-point update that follows a Rule 2 extension, on the node table
\* ns after the structural change and with remainder already decremented (rem).
\* Returns <<active_node, active_edge_char, active_length>>.
ActiveAfterRule2(ns, aec, rem) ==
    IF active_node = RootId /\ active_length > 0
    THEN LET start_index == i - rem + 1
         IN  <<active_node,
               IF start_index < N THEN T(start_index) ELSE aec,
               active_length - 1>>
    ELSE <<IF ns[active_node].suffix_link # NoNode
              THEN ns[active_node].suffix_link ELSE RootId,
           aec, active_length>>

\* Mutation: the loop test never lets the phase end.
AfterIterationLooping(rem) == IF rem >= 0 THEN "while" ELSE "phase_end"

\* while self.remainder > 0: loop test after an iteration.
AfterIteration(rem) == IF rem > 0 THEN "while" ELSE "phase_end"

\* Rule 2 (alternate): no child under the active edge symbol, create a leaf.
NewLeaf ==
    /\ pc = "while"
    /\ remainder > 0
    /\ LET aec  == EdgeCharNow
           leaf == next_id
           ns1  == Append(nodes, NewNode(i, TRUE, 0))
           ns2  == [ns1 EXCEPT ![active_node].children = (aec :> leaf) @@ @]
           ns3  == IF last_new_internal # NoNode
                   THEN [ns2 EXCEPT ![last_new_internal].suffix_link = active_node]
                   ELSE ns2
           rem  == remainder - 1
           ap   == ActiveAfterRule2(ns3, aec, rem)
       IN  /\ aec \notin DOMAIN nodes[active_node].children
           /\ nodes' = ns3
           /\ next_id' = next_id + 1
           /\ last_new_internal' = NoNode
           /\ remainder' = rem
           /\ active_node' = ap[1]
           /\ active_edge_char' = ap[2]
           /\ active_length' = ap[3]
           /\ pc' = AfterIteration(rem)
    /\ last_rule' = "rule2_leaf"
    /\ UNCHANGED <<text, leaf_end, i, outVars, coderVars, entryVars, modVars>>

\* Mutation: a walk-down that also forgets the pending internal node.
WalkDownForgetful ==
    /\ pc = "while"
    /\ remainder > 0
    /\ LET aec == EdgeCharNow
       IN  /\ aec \in DOMAIN nodes[active_node].children
           /\ LET next_node == nodes[active_node].children[aec]
                  edge_len  == EdgeLength(nodes, leaf_end, next_node)
              IN  /\ active_length >= edge_len
                  /\ active_edge_char' =
                        IF nodes[next_node].start + edge_len < N
                        THEN T(nodes[next_node].start + edge_len) ELSE NoChar
                  /\ active_length' = active_length - edge_len
                  /\ active_node' = next_node
    /\ last_new_internal' = NoNode
    /\ pc' = "while"
    /\ last_rule' = "walk_down"
    /\ UNCHANGED <<text, nodes, next_id, remainder, leaf_end, i, outVars, coderVars,
                   entryVars, modVars>>

\* SuffixTree._walk_down taken: active_length >= edge length of the child.
WalkDown ==
    /\ pc = "while"
    /\ remainder > 0
    /\ LET aec == EdgeCharNow
       IN  /\ aec \in DOMAIN nodes[active_node].children
           /\ LET next_node == nodes[active_node].children[aec]
                  edge_len  == EdgeLength(nodes, leaf_end, next_node)
              IN  /\ active_length >= edge_len
                  /\ active_edge_char' =
                        IF nodes[next_node].start + edge_len < N
                        THEN T(nodes[next_node].start + edge_len) ELSE NoChar
                  /\ active_length' = active_length - edge_len
                  /\ active_node' = next_node
    /\ pc' = "while"
    /\ last_rule' = "walk_down"
    /\ UNCHANGED <<text, nodes, next_id, remainder, leaf_end, last_new_internal,
                   i, outVars, coderVars, entryVars, modVars>>

\* Mutation: Rule 3 links a pending internal node even to the root.
Rule3LinkAlways ==
    /\ pc = "while"
    /\ remainder > 0
    /\ LET aec == EdgeCharNow
       IN  /\ aec \in DOMAIN nodes[active_node].children
           /\ LET next_node == nodes[active_node].children[aec]
                  edge_len  == EdgeLength(nodes, leaf_end, next_node)
                  edge_pos  == nodes[next_node].start + active_length
              IN  /\ active_length < edge_len
                  /\ T(edge_pos) = T(i)
                  /\ active_length' = active_length + 1
                  /\ active_edge_char' = aec
                  /\ IF last_new_internal # NoNode
                     THEN /\ nodes' = [nodes EXCEPT
                                         ![last_new_internal].suffix_link = active_node]
                          /\ last_new_internal' = NoNode
                     ELSE UNCHANGED <<nodes, last_new_internal>>
    /\ pc' = "phase_end"
    /\ last_rule' = "rule3"
    /\ UNCHANGED <<text, next_id, active_node, remainder, leaf_end, i, outVars,
                   coderVars, entryVars, modVars>>

\* Rule 3: the next symbol on the edge is text[i]; the phase ends (break).
Rule3 ==
    /\ pc = "while"
    /\ remainder > 0
    /\ LET aec == EdgeCharNow
       IN  /\ aec \in DOMAIN nodes[active_node].children
           /\ LET next_node == nodes[active_node].children[aec]
                  edge_len  == EdgeLength(nodes, leaf_end, next_node)
                  edge_pos  == nodes[next_node].start + active_length
              IN  /\ active_length < edge_len
                  /\ T(edge_pos) = T(i)
                  /\ active_length' = active_length + 1
                  /\ active_edge_char' = aec
                  /\ IF last_new_internal # NoNode /\ active_node # RootId
                     THEN /\ nodes' = [nodes EXCEPT
                                         ![last_new_internal].suffix_link = active_node]
                          /\ last_new_internal' = NoNode
                     ELSE UNCHANGED <<nodes, last_new_internal>>
    /\ pc' = "phase_end"
    /\ last_rule' = "rule3"
    /\ UNCHANGED <<text, next_id, active_node, remainder, leaf_end, i, outVars,
                   coderVars, entryVars, modVars>>

\* Rule 2 (regular): mismatch inside the edge, split it and add a leaf.
Split ==
    /\ pc = "while"
    /\ remainder > 0
    /\ LET aec == EdgeCharNow
       IN  /\ aec \in DOMAIN nodes[active_node].children
           /\ LET next_node == nodes[active_node].children[aec]
                  edge_len  == EdgeLength(nodes, leaf_end, next_node)
                  edge_pos  == nodes[next_node].start + active_length
                  split     == next_id
                  leaf      == next_id + 1
                  ns1 == nodes \o <<NewNode(nodes[next_node].start, FALSE, edge_pos - 1),
                                    NewNode(i, TRUE, 0)>>
                  ns2 == [ns1 EXCEPT ![active_node].children = (aec :> split) @@ @]
                  ns3 == [ns2 EXCEPT ![next_node].start = edge_pos]
                  ns4 == [ns3 EXCEPT ![split].children =
                                (T(i) :> leaf) @@ (T(edge_pos) :> next_node)]
                  ns5 == IF last_new_internal # NoNode
                         THEN [ns4 EXCEPT ![last_new_internal].suffix_link = split]
                         ELSE ns4
                  rem == remainder - 1
                  ap  == ActiveAfterRule2(ns5, aec, rem)
              IN  /\ active_length < edge_len
                  /\ T(edge_pos) # T(i)
                  /\ nodes' = ns5
                  /\ next_id' = next_id + 2
                  /\ last_new_internal' = split
                  /\ remainder' = rem
                  /\ active_node' = ap[1]
                  /\ active_edge_char' = ap[2]
                  /\ active_length' = ap[3]
                  /\ pc' = AfterIteration(rem)
    /\ last_rule' = "rule2_split"
    /\ UNCHANGED <<text, leaf_end, i, outVars, coderVars, entryVars, modVars>>

\* After the inner loop: a still pending internal node is linked to the root.
PhaseEnd ==
    /\ pc = "phase_end"
    /\ IF last_new_internal # NoNode
       THEN /\ nodes' = [nodes EXCEPT ![last_new_internal].suffix_link = RootId]
            /\ last_new_internal' = NoNode
       ELSE UNCHANGED <<nodes, last_new_internal>>
    /\ i' = i + 1
    /\ pc' = "for"
    /\ last_rule' = "phase_end"
    /\ UNCHANGED <<text, next_id, active_node, active_edge_char, active_length,
                   remainder, leaf_end, outVars, coderVars, entryVars, modVars>>

\* build() returns when the for loop is exhausted.
BuildReturn ==
    /\ pc = "for"
    /\ i = N
    /\ pc' = "done"
    /\ last_rule' = "return"
    /\ UNCHANGED <<text, nodes, next_id, active_node, active_edge_char, active_length,
                   remainder, leaf_end, last_new_internal, i, outVars, coderVars,
                   entryVars, modVars>>

\* ------------------------------------------------- Fibonacci coder (a2q2)
RECURSIVE GrowFibs(_, _)
\* while fibs[-1] <= n: fibs.append(fibs[-1] + fibs[-2])
GrowFibs(fibs, n) ==
    IF fibs[Len(fibs)] <= n
    THEN GrowFibs(Append(fibs, fibs[Len(fibs)] + fibs[Len(fibs) - 1]), n)
    ELSE fibs

generate_fibonacci_up_to(n) == GrowFibs(<<1, 2>>, n)

RECURSIVE GreedyBitsStrict(_, _, _, _)
\* Mutation: fibs[i] < remaining instead of fibs[i] <= remaining.
GreedyBitsStrict(fibs, k, remaining, code_bits) ==
    IF k = 0 THEN code_bits
    ELSE IF fibs[k] < remaining
         THEN GreedyBitsStrict(fibs, k - 1, remaining - fibs[k],
                               [code_bits EXCEPT ![k] = 1])
         ELSE GreedyBitsStrict(fibs, k - 1, remaining, code_bits)

RECURSIVE GreedyBits(_, _, _, _)
\* for i in range(len(fibs) - 2, -1, -1): the 0-based index i is k - 1 here.
GreedyBits(fibs, k, remaining, code_bits) ==
    IF k = 0 THEN code_bits
    ELSE IF fibs[k] <= remaining
         THEN GreedyBits(fibs, k - 1, remaining - fibs[k], [code_bits EXCEPT ![k] = 1])
         ELSE GreedyBits(fibs, k - 1, remaining, code_bits)

RECURSIVE TrimTrailingZeros(_)
\* while code_bits and code_bits[-1] == 0: code_bits.pop()
TrimTrailingZeros(code_bits) ==
    IF code_bits # <<>> /\ code_bits[Len(code_bits)] = 0
    THEN TrimTrailingZeros(SubSeq(code_bits, 1, Len(code_bits) - 1))
    ELSE code_bits

RECURSIVE Zeros(_)
\* [0] * n
Zeros(n) == IF n = 0 THEN <<>> ELSE Append(Zeros(n - 1), 0)

\* Mutation: the bits before the terminator in the opposite order.
fibonacci_encode_reversed(n) ==
    LET fibs == generate_fibonacci_up_to(n)
        bits == TrimTrailingZeros(GreedyBits(fibs, Len(fibs) - 1, n,
                                             Zeros(Len(fibs) - 1)))
    IN  Append([k \in 1..Len(bits) |-> bits[Len(bits) - k + 1]], 1)

\* fibonacci_encode(n) for n >= 1 (n <= 0 raises ValueError, see FibRaises).
fibonacci_encode(n) ==
    LET fibs == generate_fibonacci_up_to(n)
    IN  Append(TrimTrailingZeros(GreedyBits(fibs, Len(fibs) - 1, n,
                                            Zeros(Len(fibs) - 1))), 1)

FibRaises(n) == n <= 0

\* ------------------------------------------------ suffix array (a2q3)
RECURSIVE SortedKeysDescending(_)
\* Mutation: the keys in descending order.
SortedKeysDescending(S) ==
    IF S = {} THEN <<>>
    ELSE LET m == CHOOSE x \in S : \A y \in S : x >= y
         IN  <<m>> \o SortedKeysDescending(S \ {m})

RECURSIVE SortedKeys(_)
\* sorted(node.children.keys())
SortedKeys(S) ==
    IF S = {} THEN <<>>
    ELSE LET m == CHOOSE x \in S : \A y \in S : x <= y
         IN  <<m>> \o SortedKeys(S \ {m})

\* sorted() compares None with a str and raises TypeError.
SortRaises(ns) ==
    \E n \in 1..Len(ns) :
        /\ NoChar \in DOMAIN ns[n].children
        /\ Cardinality(DOMAIN ns[n].children) >= 2

RECURSIVE DfsSuffixArray(_, _, _, _)
RECURSIVE DfsChildren(_, _, _, _, _)
\* SuffixTree._dfs_suffix_array(node, depth, res): the entries appended to res.
DfsSuffixArray(ns, le, node, depth) ==
    DfsChildren(ns, le, node, SortedKeys(DOMAIN ns[node].children), depth)
    \o (IF DOMAIN ns[node].children = {} THEN <<Len(text) - depth + 1>> ELSE <<>>)

DfsChildren(ns, le, node, keys, depth) ==
    IF keys = <<>> THEN <<>>
    ELSE LET child == ns[node].children[Head(keys)]
         IN  DfsSuffixArray(ns, le, child, depth + EdgeLength(ns, le, child))
             \o DfsChildren(ns, le, node, Tail(keys), depth)

\* SuffixTree.suffix_array()
suffix_array == DfsSuffixArray(nodes, leaf_end, RootId, 0)

\* Mutation: a traversal that consumes the root's child map.
SuffixArrayCallDestructive ==
    /\ pc = "done"
    /\ sa_calls < MaxCalls
    /\ sa_calls' = sa_calls + 1
    /\ raised' = ""
    /\ sa' = suffix_array
    /\ nodes' = [nodes EXCEPT ![RootId].children = <<>>]
    /\ UNCHANGED <<text, next_id, active_node, active_edge_char, active_length,
                   remainder, leaf_end, last_new_internal, buildVars, bwt, part2,
                   part1, coderVars, entryVars, modVars>>

SuffixArrayCall ==
    /\ pc = "done"
    /\ sa_calls < MaxCalls
    /\ sa_calls' = sa_calls + 1
    /\ IF SortRaises(nodes)
       THEN /\ raised' = "TypeError"
            /\ UNCHANGED sa
       ELSE /\ raised' = ""
            /\ sa' = suffix_array
    /\ UNCHANGED <<treeVars, buildVars, bwt, part2, part1, coderVars, entryVars,
                   modVars>>

\* ------------------------------------------------------- BWT (a2q4)
\* s[k] of Python for an index k in -len(s)..len(s)-1.
PyIndex(s, k) == IF k >= 0 THEN s[k + 1] ELSE s[Len(s) + k + 1]

\* ''.join(s[-1] if i == 1 else s[i - 2] for i in sa)
bwt_from_sa(s, sarr) ==
    [k \in 1..Len(sarr) |-> IF sarr[k] = 1 THEN PyIndex(s, -1) ELSE PyIndex(s, sarr[k] - 2)]

\* s[-1] or s[i - 2] raises IndexError for an index outside -len(s)..len(s)-1.
BwtRaises(s, sarr) ==
    \E k \in 1..Len(sarr) :
        LET idx == IF sarr[k] = 1 THEN -1 ELSE sarr[k] - 2
        IN  idx >= Len(s) \/ idx < -Len(s)

\* main: sa = st.suffix_array(), then the BWT of S from that array.
BwtCall ==
    /\ pc = "done"
    /\ sa_calls >= 1
    /\ raised = ""
    /\ bwt = <<>>
    /\ IF BwtRaises(text, sa)
       THEN raised' = "IndexError" /\ UNCHANGED bwt
       ELSE raised' = raised /\ bwt' = bwt_from_sa(text, sa)
    /\ UNCHANGED <<treeVars, buildVars, sa, sa_calls, part2, part1, coderVars,
                   entryVars, modVars>>

\* ------------------------------------------- tree serialisation (a2q4)
RECURSIVE EncDfs(_, _, _, _)
RECURSIVE EncChildren(_, _, _, _, _)
\* dfs(node, depth) of encode_part_II_from_q3_tree: the bits it appends, or
\* <<-1>> when a fibonacci_encode call inside it raises ValueError.
EncDfs(ns, le, node, depth) ==
    EncChildren(ns, le, node, SortedKeys(DOMAIN ns[node].children), depth)

EncChildren(ns, le, node, keys, depth) ==
    IF keys = <<>> THEN <<>>
    ELSE LET child == ns[node].children[Head(keys)]
             rest  == EncChildren(ns, le, node, Tail(keys), depth)
         IN  IF ns[child].start = NoStart THEN rest
             ELSE LET start == ns[child].start + 1
                      end   == EndVal(ns[child], le) + 1
                      path_len == end - (ns[child].start + 1) + 1
                      suffix_index == Len(text) - (depth + path_len) + 1
                      sub == EncDfs(ns, le, child, depth + (end - start + 1))
                  IN  IF FibRaises(start) \/ FibRaises(end) THEN <<-1>>
                      ELSE IF DOMAIN ns[child].children = {}
                      THEN IF FibRaises(suffix_index) THEN <<-1>>
                           ELSE IF rest = <<-1>> THEN <<-1>>
                           ELSE <<0>> \o fibonacci_encode(start) \o fibonacci_encode(end)
                                \o <<1>> \o fibonacci_encode(suffix_index) \o rest
                      ELSE IF sub = <<-1>> \/ rest = <<-1>> THEN <<-1>>
                           ELSE <<0>> \o fibonacci_encode(start) \o fibonacci_encode(end)
                                \o sub \o <<1>> \o rest

\* encode_part_II_from_q3_tree(s, st)
EncodePartIICall ==
    /\ pc = "done"
    /\ part2 = <<>>
    /\ LET bits == EncDfs(nodes, leaf_end, RootId, 0)
       IN  IF SortRaises(nodes)
           THEN raised' = "TypeError" /\ UNCHANGED part2
           ELSE IF bits = <<-1>>
           THEN raised' = "ValueError" /\ UNCHANGED part2
           ELSE raised' = raised /\ part2' = Append(bits, 1)
    /\ UNCHANGED <<treeVars, buildVars, sa, sa_calls, bwt, part1, coderVars,
                   entryVars, modVars>>

\* ------------------------------------------------------ specification
\* ------------------------------------------------ Fibonacci coder alone
\* No tree is under construction while a coder is called on its own.
TreeIdle ==
    /\ text = <<Sentinel>>
    /\ nodes = <<[NewNode(NoStart, FALSE, -1) EXCEPT !.suffix_link = RootId]>>
    /\ next_id = 2
    /\ active_node = RootId
    /\ active_edge_char = NoChar
    /\ active_length = 0
    /\ remainder = 0
    /\ leaf_end = -1
    /\ last_new_internal = NoNode
    /\ i = 0
    /\ pc = "off"
    /\ last_rule = "none"
    /\ OutInit
    /\ prog = "none"
    /\ file_raw = <<>>

FibInit ==
    /\ TreeIdle
    /\ fib_n \in (-2)..MaxFibN
    /\ fib_code = <<>>
    /\ huff_text = <<>>
    /\ huff_codes = <<>>
    /\ call = "fib"
    /\ ModOff

\* Mutation: a non-positive argument gets the codeword of 1 and no error.
FibEncodeCallLenient ==
    /\ call = "fib"
    /\ call' = "fib_returned"
    /\ raised' = ""
    /\ fib_code' = IF FibRaises(fib_n) THEN <<1, 1>> ELSE fibonacci_encode(fib_n)
    /\ UNCHANGED <<treeVars, buildVars, sa, sa_calls, bwt, part2, part1, fib_n,
                   huff_text, huff_codes, entryVars, modVars>>

\* fibonacci_encode(fib_n)
FibEncodeCall ==
    /\ call = "fib"
    /\ call' = "fib_returned"
    /\ IF FibRaises(fib_n)
       THEN raised' = "ValueError" /\ UNCHANGED fib_code
       ELSE raised' = "" /\ fib_code' = fibonacci_encode(fib_n)
    /\ UNCHANGED <<treeVars, buildVars, sa, sa_calls, bwt, part2, part1, fib_n,
                   huff_text, huff_codes, entryVars, modVars>>

SpecFib == FibInit /\ [][FibEncodeCall]_vars

\* --------------------------------------------------- Huffman coder (a2q4)
\* Node(freq, sym, left, right) of build_huffman_codes; None is NoChar / NoNode.
HuffNode(freq, sym, left, right) ==
    [freq |-> freq, sym |-> sym, left |-> left, right |-> right]

\* Mutation: at equal frequency a non-leaf sorts before a symbol leaf.
HuffLtInternalFirst(self, other) ==
    IF self.freq # other.freq THEN self.freq < other.freq
    ELSE IF self.sym # NoChar /\ other.sym # NoChar THEN self.sym < other.sym
    ELSE IF self.sym # NoChar THEN FALSE
    ELSE other.sym # NoChar

\* Node.__lt__.  The heap operators below are CPython's heapq on a list,
\* positions 0-based as in heapq, the list itself a 1-based tuple.
HuffLt(self, other) ==
    IF self.freq # other.freq THEN self.freq < other.freq
    ELSE IF self.sym # NoChar /\ other.sym # NoChar THEN self.sym < other.sym
    ELSE IF self.sym # NoChar THEN TRUE
    ELSE FALSE

RECURSIVE SiftDown(_, _, _, _)
\* heapq._siftdown(heap, startpos, pos), newitem = heap[pos]; 0-based positions.
SiftDown(heap, startpos, pos, newitem) ==
    LET parentpos == (pos - 1) \div 2
    IN  IF pos > startpos /\ HuffLt(newitem, heap[parentpos + 1])
        THEN SiftDown([heap EXCEPT ![pos + 1] = heap[parentpos + 1]],
                      startpos, parentpos, newitem)
        ELSE [heap EXCEPT ![pos + 1] = newitem]

RECURSIVE SiftUpLoop(_, _, _, _)
\* heapq._siftup(heap, pos): bubble the smaller child up to a leaf position,
\* then sift newitem down from there.
SiftUpLoop(heap, startpos, pos, newitem) ==
    LET endpos   == Len(heap)
        childpos == 2 * pos + 1
        rightpos == childpos + 1
        c == IF rightpos < endpos /\ ~HuffLt(heap[childpos + 1], heap[rightpos + 1])
             THEN rightpos ELSE childpos
    IN  IF childpos < endpos
        THEN SiftUpLoop([heap EXCEPT ![pos + 1] = heap[c + 1]], startpos, c, newitem)
        ELSE SiftDown([heap EXCEPT ![pos + 1] = newitem], startpos, pos, newitem)

SiftUp(heap, pos) == SiftUpLoop(heap, pos, pos, heap[pos + 1])

RECURSIVE HeapifyFrom(_, _)
\* heapq.heapify: for i in reversed(range(n // 2)): _siftup(x, i)
HeapifyFrom(heap, k) ==
    IF k < 0 THEN heap ELSE HeapifyFrom(SiftUp(heap, k), k - 1)

Heapify(heap) == HeapifyFrom(heap, (Len(heap) \div 2) - 1)

\* heapq.heappop: <<returned item, heap afterwards>>
HeapPop(heap) ==
    LET lastelt == heap[Len(heap)]
        rest    == SubSeq(heap, 1, Len(heap) - 1)
    IN  IF rest # <<>>
        THEN <<rest[1], SiftUp([rest EXCEPT ![1] = lastelt], 0)>>
        ELSE <<lastelt, rest>>

\* heapq.heappush
HeapPush(heap, item) ==
    SiftDown(Append(heap, item), 0, Len(heap), item)

RECURSIVE MergeLoop(_)
\* while len(heap) > 1: pop left, pop right, push their parent.
MergeLoop(heap) ==
    IF Len(heap) > 1
    THEN LET p1 == HeapPop(heap)
             p2 == HeapPop(p1[2])
             left  == p1[1]
             right == p2[1]
         IN  MergeLoop(HeapPush(p2[2],
                                HuffNode(left.freq + right.freq, NoChar, left, right)))
    ELSE heap

RECURSIVE traverseSameBit(_, _)
\* Mutation: both branches extend the prefix by "0".
traverseSameBit(node, prefix) ==
    IF node.sym # NoChar
    THEN node.sym :> (IF prefix = <<>> THEN <<1>> ELSE prefix)
    ELSE traverseSameBit(node.left, Append(prefix, 0))
         @@ traverseSameBit(node.right, Append(prefix, 0))

RECURSIVE traverse(_, _)
\* traverse(node, prefix): the entries it writes to codes.
traverse(node, prefix) ==
    IF node.sym # NoChar
    THEN node.sym :> (IF prefix = <<>> THEN <<1>> ELSE prefix)
    ELSE traverse(node.left, Append(prefix, 0)) @@ traverse(node.right, Append(prefix, 1))

\* freq[ch] after the counting loop
Freq(txt, ch) == Cardinality({k \in 1..Len(txt) : txt[k] = ch})

RECURSIVE LeafNodes(_, _)
\* [Node(f, c) for c, f in sorted(freq.items())]
LeafNodes(txt, keys) ==
    IF keys = <<>> THEN <<>>
    ELSE <<HuffNode(Freq(txt, Head(keys)), Head(keys), NoNode, NoNode)>>
         \o LeafNodes(txt, Tail(keys))

\* build_huffman_codes(text) for a non-empty text
build_huffman_codes(txt) ==
    LET syms == {txt[k] : k \in 1..Len(txt)}
    IN  IF Cardinality(syms) = 1
        THEN (CHOOSE only \in syms : TRUE) :> <<1>>
        ELSE traverse(MergeLoop(Heapify(LeafNodes(txt, SortedKeys(syms))))[1], <<>>)

HuffTexts == UNION {SeqsOver(HuffAlphabet, n) : n \in 1..MaxHuffLen}

HuffInit ==
    /\ TreeIdle
    /\ fib_n = 1
    /\ fib_code = <<>>
    /\ huff_text \in HuffTexts
    /\ huff_codes = <<>>
    /\ call = "huff"
    /\ ModOff

\* build_huffman_codes(huff_text)
HuffmanCall ==
    /\ call = "huff"
    /\ call' = "huff_returned"
    /\ huff_codes' = build_huffman_codes(huff_text)
    /\ UNCHANGED <<treeVars, buildVars, outVars, fib_n, fib_code, huff_text,
                   entryVars, modVars>>

SpecHuff == HuffInit /\ [][HuffmanCall]_vars

\* ------------------------------------------------ Part I stream (a2q4)
RECURSIVE rle_runs(_, _, _)
\* rle_runs(s) for a non-empty s: the (count, char) runs from position k on,
\* count symbols of the current run seen so far; rle_runs(s, 2, 1) is the
\* whole list.
rle_runs(s, k, count) ==
    IF k > Len(s) THEN <<<<count, s[Len(s)]>>>>
    ELSE IF s[k] = s[k - 1] THEN rle_runs(s, k + 1, count + 1)
    ELSE <<<<count, s[k - 1]>>>> \o rle_runs(s, k + 1, 1)

RECURSIVE Binary(_)
\* The binary digits of n >= 0, most significant first, as format(n, "b").
Binary(n) == IF n < 2 THEN <<n>> ELSE Append(Binary(n \div 2), n % 2)

\* format(n, "07b"): zero-padded to at least 7 digits, never cut.
Format07b(n) ==
    LET b == Binary(n) IN IF Len(b) >= 7 THEN b ELSE Zeros(7 - Len(b)) \o b

RECURSIVE TableFields(_, _)
\* for ch in distinct: bits.append(ascii7), (fib(len(code))), (code)
TableFields(distinct, codes) ==
    IF distinct = <<>> THEN <<>>
    ELSE LET ch == Head(distinct)
         IN  <<Format07b(ch), fibonacci_encode(Len(codes[ch])), codes[ch]>>
             \o TableFields(Tail(distinct), codes)

RECURSIVE RunFields(_, _)
\* for run_len, ch in rle_runs(bwt): bits.append(fib(run_len)), (codes[ch])
RunFields(runs, codes) ==
    IF runs = <<>> THEN <<>>
    ELSE <<fibonacci_encode(Head(runs)[1]), codes[Head(runs)[2]]>>
         \o RunFields(Tail(runs), codes)

\* The list bits of encode_part_I_bwt before it is joined, for a non-empty
\* transform b.
PartIBits(b) ==
    LET distinct == SortedKeys({b[k] : k \in 1..Len(b)})
        codes == build_huffman_codes(b)
    IN  <<fibonacci_encode(Len(b)), fibonacci_encode(Len(distinct))>>
        \o TableFields(distinct, codes)
        \o RunFields(rle_runs(b, 2, 1), codes)

RECURSIVE Join(_)
\* "".join(bits)
Join(fields) == IF fields = <<>> THEN <<>> ELSE Head(fields) \o Join(Tail(fields))

\* encode_part_I_bwt(s, sa)
encode_part_I_bwt(s, sarr) == Join(PartIBits(bwt_from_sa(s, sarr)))

\* main: part1_bits = encode_part_I_bwt(S, sa)
EncodePartICall ==
    /\ pc = "done"
    /\ sa_calls >= 1
    /\ raised = ""
    /\ part1 = <<>>
    /\ IF BwtRaises(text, sa)
       THEN raised' = "IndexError" /\ UNCHANGED part1
       ELSE IF FibRaises(Len(sa))
       THEN raised' = "ValueError" /\ UNCHANGED part1
       ELSE raised' = raised /\ part1' = encode_part_I_bwt(text, sa)
    /\ UNCHANGED <<treeVars, buildVars, sa, sa_calls, bwt, part2, coderVars,
                   entryVars, modVars>>

\* ------------------------------------------ modular exponentiation (a2q1)
RECURSIVE ModExpLoop(_, _, _, _)
\* The while loop of mod_exp, from the values its variables hold.
ModExpLoop(result, base, exponent, modulus) ==
    IF exponent > 0
    THEN ModExpLoop(IF exponent % 2 = 1 THEN (result * base) % modulus ELSE result,
                    (base * base) % modulus, exponent \div 2, modulus)
    ELSE result

\* mod_exp(base, exponent, modulus) for modulus >= 1
mod_exp(base, exponent, modulus) == ModExpLoop(1, base % modulus, exponent, modulus)

ModInit ==
    /\ TreeIdle
    /\ fib_n = 1
    /\ fib_code = <<>>
    /\ huff_text = <<>>
    /\ huff_codes = <<>>
    /\ call = "mod_exp"
    /\ me_base \in 0..MaxBase
    /\ me_exponent \in 0..MaxExponent
    /\ me_modulus \in 1..MaxModulus
    /\ me_result = 0

\* mod_exp(me_base, me_exponent, me_modulus)
ModExpCall ==
    /\ call = "mod_exp"
    /\ call' = "mod_exp_returned"
    /\ me_result' = mod_exp(me_base, me_exponent, me_modulus)
    /\ UNCHANGED <<treeVars, buildVars, outVars, fib_n, fib_code, huff_text,
                   huff_codes, entryVars, me_base, me_exponent, me_modulus>>

SpecModExp == ModInit /\ [][ModExpCall]_vars

\* ------------------------------------------------- the whole pipeline
Next ==
    \/ PhaseStart \/ NewLeaf \/ WalkDown \/ Rule3 \/ Split \/ PhaseEnd \/ BuildReturn
    \/ SuffixArrayCall \/ BwtCall \/ EncodePartICall \/ EncodePartIICall

Spec == Init /\ [][Next]_vars

\* A step of build().  build() is one thread running a for loop around a
\* while loop with no suspension point, so a step that can be taken is taken.
BuildStep ==
    PhaseStart \/ NewLeaf \/ WalkDown \/ Rule3 \/ Split \/ PhaseEnd \/ BuildReturn

SpecBuildFair == Init /\ [][Next]_vars /\ WF_vars(BuildStep)

\* ------------------------------------------- entry points (a2q3, a2q4)
\* Contents of an input file: 'a', '$' and line breaks, up to MaxFileLen
\* symbols.  A direct caller of SuffixTree(text) passes such a string as is.
LineBreak == 10
FileAlphabet == {97, Sentinel, LineBreak}
Files == UNION {SeqsOver(FileAlphabet, n) : n \in 0..MaxFileLen}

\* str.isspace on the ASCII range.
IsSpace(c) == c \in {9, 10, 11, 12, 13, 32}

RECURSIVE LStrip(_)
LStrip(s) == IF s # <<>> /\ IsSpace(s[1]) THEN LStrip(Tail(s)) ELSE s

RECURSIVE RStrip(_)
RStrip(s) ==
    IF s # <<>> /\ IsSpace(s[Len(s)]) THEN RStrip(SubSeq(s, 1, Len(s) - 1)) ELSE s

\* str.strip()
PyStrip(s) == RStrip(LStrip(s))

\* str.endswith("$")
EndsWithSentinel(s) == s # <<>> /\ s[Len(s)] = Sentinel

\* A program is started on an input file, or a caller is about to construct
\* a SuffixTree on a string of its own; no tree exists yet.
MainInit ==
    /\ prog \in {"a2q3", "a2q4", "SuffixTree"}
    /\ file_raw \in Files
    /\ text = <<>>
    /\ nodes = <<[NewNode(NoStart, FALSE, -1) EXCEPT !.suffix_link = RootId]>>
    /\ next_id = 2
    /\ active_node = RootId
    /\ active_edge_char = NoChar
    /\ active_length = 0
    /\ remainder = 0
    /\ leaf_end = -1
    /\ last_new_internal = NoNode
    /\ i = 0
    /\ pc = "main"
    /\ last_rule = "none"
    /\ OutInit
    /\ CoderOff
    /\ ModOff

\* a2q3.main up to st = SuffixTree(text, logger): the stripped file content
\* is refused when empty, otherwise passed on as it is.
MainA2q3 ==
    /\ pc = "main"
    /\ prog = "a2q3"
    /\ LET s == PyStrip(file_raw)
       IN  IF s = <<>>
           THEN /\ raised' = "SystemExit"
                /\ pc' = "exit"
                /\ UNCHANGED text
           ELSE /\ text' = s
                /\ pc' = "for"
                /\ UNCHANGED raised
    /\ last_rule' = "main"
    /\ UNCHANGED <<nodes, next_id, active_node, active_edge_char, active_length,
                   remainder, leaf_end, last_new_internal, i, sa, sa_calls, bwt,
                   part2, part1, coderVars, entryVars, modVars>>

\* a2q4.main up to st = SuffixTree(S, logger=DummyLogger()): '$' is appended
\* to the stripped file content unless it already ends with it.
MainA2q4 ==
    /\ pc = "main"
    /\ prog = "a2q4"
    /\ LET S == PyStrip(file_raw)
       IN  text' = IF ~EndsWithSentinel(S) THEN Append(S, Sentinel) ELSE S
    /\ pc' = "for"
    /\ last_rule' = "main"
    /\ UNCHANGED <<nodes, next_id, active_node, active_edge_char, active_length,
                   remainder, leaf_end, last_new_internal, i, outVars, coderVars,
                   entryVars, modVars>>

\* SuffixTree.__init__(text, logger) called by any other caller.
Construct ==
    /\ pc = "main"
    /\ prog = "SuffixTree"
    /\ text' = file_raw
    /\ pc' = "for"
    /\ last_rule' = "main"
    /\ UNCHANGED <<nodes, next_id, active_node, active_edge_char, active_length,
                   remainder, leaf_end, last_new_internal, i, outVars, coderVars,
                   entryVars, modVars>>

MainNext == MainA2q3 \/ MainA2q4 \/ Construct \/ Next

SpecMain == MainInit /\ [][MainNext]_vars


\* ============================================================ properties
NodeIds == 1..Len(nodes)
HasChildren(n) == DOMAIN nodes[n].children # {}
Leaves == {n \in NodeIds : ~HasChildren(n)}
Internals == {n \in NodeIds : HasChildren(n) /\ n # RootId}

\* The parent of a non-root node, and the label spelled from the root to a node.
Parent(n) ==
    CHOOSE p \in NodeIds : \E c \in DOMAIN nodes[p].children : nodes[p].children[c] = n

EdgeLabel(n) ==
    [k \in 1..EdgeLength(nodes, leaf_end, n) |-> T(nodes[n].start + k - 1)]

RECURSIVE PathLabel(_)
PathLabel(n) == IF n = RootId THEN <<>> ELSE PathLabel(Parent(n)) \o EdgeLabel(n)

\* The suffix of the text that starts at 1-based position k.
Suffix(k) == SubSeq(text, k, Len(text))

RECURSIVE LexLeq(_, _)
LexLeq(s, t) ==
    IF s = <<>> THEN TRUE
    ELSE IF t = <<>> THEN FALSE
    ELSE IF Head(s) # Head(t) THEN Head(s) < Head(t)
    ELSE LexLeq(Tail(s), Tail(t))

SaReturned == pc = "done" /\ sa_calls >= 1

\* C1: after build() on a text with a unique final sentinel, suffix_array()
\* returns a list of length |T| holding each of 1..|T| exactly once, with the
\* suffixes it names in lexicographic order ("banana$" gives 7,6,4,2,1,5,3).
C1_SuffixArraySorted ==
    SaReturned =>
        /\ raised = ""
        /\ Len(sa) = N
        /\ \A v \in 1..N : Cardinality({k \in 1..Len(sa) : sa[k] = v}) = 1
        /\ \A k \in 1..(Len(sa) - 1) :
              /\ sa[k] \in 1..N /\ sa[k + 1] \in 1..N
              /\ LexLeq(Suffix(sa[k]), Suffix(sa[k + 1]))
        /\ (text = Banana => sa = <<7, 6, 4, 2, 1, 5, 3>>)

\* C2: after build(), leaves and suffixes correspond one to one: every
\* root-to-leaf label is a suffix, every suffix is spelled by exactly one leaf,
\* and a leaf whose label has length d is the suffix starting at |T| - d + 1.
C2_LeavesAreSuffixes ==
    pc = "done" =>
        /\ \A n \in Leaves :
              LET d == Len(PathLabel(n))
              IN  d \in 1..N /\ PathLabel(n) = Suffix(N - d + 1)
        /\ \A k \in 1..N : Cardinality({n \in Leaves : PathLabel(n) = Suffix(k)}) = 1

\* C3: after build(), the suffix link of every internal node other than the
\* root leads to an internal node whose path label is the node's own without
\* its first symbol; the root's suffix link is the root, from construction on.
C3_SuffixLinks ==
    /\ nodes[RootId].suffix_link = RootId
    /\ pc = "done" =>
          \A v \in Internals :
              LET w == nodes[v].suffix_link
              IN  /\ w # NoNode
                  /\ HasChildren(w)
                  /\ PathLabel(w) = Tail(PathLabel(v))

BetweenExtensions == pc \in {"while", "phase_end", "for", "done"} /\ leaf_end >= 0

\* C4: between extensions and after build(), no node other than the root has
\* exactly one child; once built, the root has fewer than two children only
\* for a single-symbol text.
C4_NoUnaryNode ==
    /\ BetweenExtensions =>
          \A n \in NodeIds \ {RootId} : Cardinality(DOMAIN nodes[n].children) # 1
    /\ (pc = "done" /\ Cardinality(DOMAIN nodes[RootId].children) < 2) => N = 1

\* C5: between extensions, an internal node without suffix link is the pending
\* one in last_new_internal; at the end of a phase nothing is pending and
\* every internal node has a suffix link.
C5_PendingLink ==
    /\ BetweenExtensions =>
          \A n \in Internals :
              nodes[n].suffix_link = NoNode => n = last_new_internal
    /\ (pc \in {"for", "done"}) =>
          /\ last_new_internal = NoNode
          /\ \A n \in Internals : nodes[n].suffix_link # NoNode

\* C6: for "$" and for one symbol followed by the sentinel, build() makes no
\* internal node besides the root, the root's children are leaves, one per
\* suffix, and the suffix array is [1], respectively [2,1].
C6_TinyTexts ==
    (pc = "done" /\ N <= 2) =>
        /\ Internals = {}
        /\ Len(nodes) = N + 1
        /\ Cardinality(DOMAIN nodes[RootId].children) = N
        /\ \A c \in DOMAIN nodes[RootId].children :
              /\ ~HasChildren(nodes[RootId].children[c])
              /\ c = T(nodes[nodes[RootId].children[c]].start)
        /\ \A k \in 1..N : \E n \in Leaves : PathLabel(n) = Suffix(k)
        /\ sa_calls >= 1 =>
              /\ raised = ""
              /\ sa = IF N = 1 THEN <<1>> ELSE <<2, 1>>

C6_Witness ==
    /\ pc = "done" /\ text = <<97, Sentinel>> /\ sa_calls >= 1 /\ sa = <<2, 1>>
    /\ DOMAIN nodes[RootId].children = {97, Sentinel}

\* C7: once build() has returned, suffix_array() and
\* encode_part_II_from_q3_tree() leave the whole tree as it is, and every
\* further suffix_array() call returns the list the previous one returned.
C7_ReadOnlyAfterBuild ==
    [][pc = "done" =>
          /\ treeVars' = treeVars
          /\ (sa_calls >= 1 /\ sa_calls' > sa_calls) => (sa' = sa /\ raised' = raised)]_vars

C7_Witness == pc = "done" /\ sa_calls = MaxCalls /\ part2 # <<>> /\ Len(nodes) > 3

\* The standard inverse of the transform: first column by stable sort, then
\* follow the last-to-first mapping from the row of the smallest rotation.
LF(L, r) ==
    Cardinality({j \in 1..Len(L) : L[j] < L[r] \/ (L[j] = L[r] /\ j <= r)})

RECURSIVE InverseRows(_, _, _)
InverseRows(L, r, count) ==
    IF count = 0 THEN <<>>
    ELSE InverseRows(L, LF(L, r), count - 1) \o <<L[r]>>

InverseBwt(L) ==
    IF L = <<>> THEN <<>>
    ELSE LET rot == InverseRows(L, 1, Len(L)) IN Tail(rot) \o <<Head(rot)>>

Count(s, c) == Cardinality({k \in 1..Len(s) : s[k] = c})
IsPermutationOf(s, t) ==
    /\ Len(s) = Len(t)
    /\ \A c \in {t[k] : k \in 1..Len(t)} \cup {s[k] : k \in 1..Len(s)} :
          Count(s, c) = Count(t, c)

\* C8: the transform built from the tree's suffix array is a permutation of
\* the text from which the standard inverse BWT gives back the text
\* ("banana$" gives "annb$aa").
C8_BwtInvertible ==
    (pc = "done" /\ bwt # <<>>) =>
        /\ IsPermutationOf(bwt, text)
        /\ InverseBwt(bwt) = text
        /\ (text = Banana => bwt = <<97, 110, 110, 98, 36, 97, 97>>)

RECURSIVE FibSum(_, _, _, _)
\* The sum of the Fibonacci numbers 1, 2, 3, 5, ... (a is the k-th, b the
\* next) at the set positions k..Len(code)-1 of a codeword.
FibSum(code, k, a, b) ==
    IF k > Len(code) - 1 THEN 0
    ELSE code[k] * a + FibSum(code, k + 1, b, a + b)

\* C9: for n >= 1 the codeword of fibonacci_encode(n) ends in "11", has no
\* other two adjacent 1 bits, and the Fibonacci numbers at the set bits before
\* the final bit add up to n.
C9_FibonacciCode ==
    (call = "fib_returned" /\ fib_n >= 1) =>
        /\ raised = ""
        /\ \A k \in 1..Len(fib_code) : fib_code[k] \in {0, 1}
        /\ Len(fib_code) >= 2
        /\ fib_code[Len(fib_code)] = 1 /\ fib_code[Len(fib_code) - 1] = 1
        /\ \A k \in 1..(Len(fib_code) - 2) : ~(fib_code[k] = 1 /\ fib_code[k + 1] = 1)
        /\ FibSum(fib_code, 1, 1, 2) = fib_n

C9_Witness == call = "fib_returned" /\ fib_n = 12 /\ fib_code = <<1, 0, 1, 0, 1, 1>>

IsPrefix(s, t) == Len(s) <= Len(t) /\ SubSeq(t, 1, Len(s)) = s

RECURSIVE HuffEncode(_, _)
\* The concatenation of the codewords of a symbol sequence.
HuffEncode(codes, txt) ==
    IF txt = <<>> THEN <<>> ELSE codes[Head(txt)] \o HuffEncode(codes, Tail(txt))

RECURSIVE HuffDecode(_, _)
\* Decoding by matching a codeword at the front of the bits; <<-1>> marks bits
\* that no codeword starts.
HuffDecode(codes, bits) ==
    IF bits = <<>> THEN <<>>
    ELSE LET M == {c \in DOMAIN codes : codes[c] # <<>> /\ IsPrefix(codes[c], bits)}
         IN  IF M = {} THEN <<-1>>
             ELSE LET c == CHOOSE x \in M : \A y \in M : x <= y
                  IN  <<c>> \o HuffDecode(codes, SubSeq(bits, Len(codes[c]) + 1, Len(bits)))

\* C10: build_huffman_codes gives every distinct symbol of a non-empty
\* sequence a non-empty codeword, no codeword is a prefix of another, and the
\* concatenated codewords of the sequence decode to the sequence.
C10_HuffmanPrefixCode ==
    call = "huff_returned" =>
        /\ DOMAIN huff_codes = {huff_text[k] : k \in 1..Len(huff_text)}
        /\ \A c \in DOMAIN huff_codes :
              /\ huff_codes[c] # <<>>
              /\ \A k \in 1..Len(huff_codes[c]) : huff_codes[c][k] \in {0, 1}
        /\ \A c, d \in DOMAIN huff_codes :
              c # d => ~IsPrefix(huff_codes[c], huff_codes[d])
        /\ HuffDecode(huff_codes, HuffEncode(huff_codes, huff_text)) = huff_text

C10_Witness ==
    /\ call = "huff_returned"
    /\ Cardinality(DOMAIN huff_codes) >= 3
    /\ \E c, d \in DOMAIN huff_codes : Len(huff_codes[c]) < Len(huff_codes[d])
\* ------------------------------------------------------ entry points
\* The text the entry point starts from is empty.
InputEmpty ==
    IF prog = "SuffixTree" THEN file_raw = <<>> ELSE PyStrip(file_raw) = <<>>

\* C11: an empty input text is refused before a SuffixTree is constructed on
\* it: once the entry point (a2q3 main, a2q4 main, SuffixTree itself) has
\* run on an empty text, it has stopped with an error and no tree exists on
\* any text, least of all on a text made valid behind the caller's back.
C11_EmptyTextRejected ==
    (pc # "main" /\ InputEmpty) => (pc = "exit" /\ raised # "" /\ text = <<>>)

\* C12: a text that a2q3 main or a2q4 main has passed to SuffixTree ends with
\* '$'; it is the stripped file content, with '$' appended when it did not
\* end with it.
C12_SentinelAppended ==
    (prog \in {"a2q3", "a2q4"} /\ pc \notin {"main", "exit"}) =>
        LET s == PyStrip(file_raw)
        IN  /\ EndsWithSentinel(text)
            /\ text = IF EndsWithSentinel(s) THEN s ELSE Append(s, Sentinel)

\* ------------------------------------------------------- Part I stream
\* C13: in a Part I stream that encode_part_I_bwt has returned, every
\* distinct symbol of the transform fits in 7 bits and its code-point field
\* (the first field of its table entry) is exactly 7 bits wide; a transform
\* with a symbol above 127 yields an error, never a stream.
C13_SevenBitField ==
    part1 # <<>> =>
        LET b == bwt_from_sa(text, sa)
            distinct == SortedKeys({b[k] : k \in 1..Len(b)})
            fields == PartIBits(b)
        IN  /\ part1 = Join(fields)
            /\ \A k \in 1..Len(distinct) :
                  distinct[k] <= 127 /\ Len(fields[3 * k]) = 7

\* ----------------------------------------------------- coder arguments
\* C14: fibonacci_encode(n) with n <= 0 raises ValueError and hands back no
\* codeword.
C14_NonPositiveRejected ==
    (call = "fib_returned" /\ fib_n <= 0) => (raised = "ValueError" /\ fib_code = <<>>)

C14_Witness == call = "fib_returned" /\ fib_n = 0 /\ raised = "ValueError"

RECURSIVE Power(_, _)
\* base^exponent over the integers, with 0^0 = 1.
Power(base, exponent) == IF exponent = 0 THEN 1 ELSE base * Power(base, exponent - 1)

\* C15: mod_exp(base, exponent, modulus) returns (base^exponent) mod modulus
\* for every base >= 0, exponent >= 0 and modulus >= 1.
C15_ModExp ==
    call = "mod_exp_returned" => me_result = Power(me_base, me_exponent) % me_modulus

\* ------------------------------------------------------- active point
\* text[from .. to] with 0-based inclusive positions, empty when to < from.
Slice(from, to) == [k \in 1..(to - from + 1) |-> T(from + k - 1)]

\* C16: at the start of every extension of phase i (the retry after a
\* walk-down included) the active point spells the matched part
\* text[i - remainder + 1 .. i - 1] of the pending suffix: the path label of
\* the active node is its first part, the remaining active_length symbols
\* lie on the edge under active_edge_char; with active_length > 0 that symbol
\* is text[i - active_length] and the active node has a child under it.
C16_ActivePoint ==
    (pc = "while" /\ remainder > 0) =>
        LET lab == PathLabel(active_node)
        IN  /\ remainder <= i + 1
            /\ Len(lab) + active_length = remainder - 1
            /\ lab = Slice(i - remainder + 1, i - active_length - 1)
            /\ active_length > 0 =>
                  /\ active_edge_char = T(i - active_length)
                  /\ active_edge_char \in DOMAIN nodes[active_node].children
                  /\ LET child == nodes[active_node].children[active_edge_char]
                         len == EdgeLength(nodes, leaf_end, child)
                     IN  \A k \in 0..(active_length - 1) :
                             k < len => T(nodes[child].start + k) = T(i - active_length + k)

\* C17: a walk-down step is taken when the active node has a child under
\* the active edge symbol and active_length is at least that child's edge
\* length; it subtracts the edge length from active_length, makes the child
\* the active node and reads the active edge symbol anew from the text
\* position after the child's edge; remainder, the nodes with their edge
\* ranges, child maps and suffix links, the shared end, the pending internal
\* node and the phase are as before, and the extension is tried again.
C17_WalkDownFrame ==
    [][(pc = "while" /\ last_rule' = "walk_down") =>
          LET aec == EdgeCharNow
          IN  /\ aec \in DOMAIN nodes[active_node].children
              /\ LET child == nodes[active_node].children[aec]
                     len == EdgeLength(nodes, leaf_end, child)
                 IN  /\ active_length >= len
                     /\ active_length' = active_length - len
                     /\ active_node' = child
                     /\ active_edge_char' =
                           IF nodes[child].start + len < N
                           THEN T(nodes[child].start + len) ELSE NoChar
              /\ remainder' = remainder
              /\ nodes' = nodes
              /\ next_id' = next_id
              /\ leaf_end' = leaf_end
              /\ last_new_internal' = last_new_internal
              /\ i' = i
              /\ text' = text
              /\ pc' = "while"]_vars

C17_Witness ==
    pc = "while" /\ last_rule = "walk_down" /\ last_new_internal # NoNode /\ remainder > 1

\* C18: a Rule 3 step ends the phase: active_length grows by exactly 1,
\* remainder stays, no node is created, no edge range or child map changes,
\* the only suffix link that may change is the pending internal node's, set
\* to the active node when that is not the root, and the step after it is
\* the end of the phase, with no extension in between.
C18_Rule3EndsPhase ==
    [][/\ (pc = "while" /\ last_rule' = "rule3") =>
             /\ active_length' = active_length + 1
             /\ remainder' = remainder
             /\ active_node' = active_node
             /\ Len(nodes') = Len(nodes)
             /\ next_id' = next_id
             /\ leaf_end' = leaf_end
             /\ \A n \in NodeIds :
                   /\ nodes'[n].start = nodes[n].start
                   /\ nodes'[n].end = nodes[n].end
                   /\ nodes'[n].children = nodes[n].children
                   /\ nodes'[n].suffix_link =
                         IF n = last_new_internal /\ active_node # RootId
                         THEN active_node ELSE nodes[n].suffix_link
             /\ i' = i
             /\ pc' = "phase_end"
       /\ (pc = "phase_end" /\ last_rule = "rule3") =>
             /\ last_rule' = "phase_end"
             /\ pc' = "for"
             /\ i' = i + 1
             /\ remainder' = remainder
             /\ active_length' = active_length
             /\ Len(nodes') = Len(nodes)]_vars

C18_Witness ==
    /\ pc = "phase_end" /\ last_rule = "rule3" /\ active_node # RootId
    /\ last_new_internal = NoNode
    /\ nodes[Len(nodes) - 1].suffix_link = active_node

\* C19: a Rule 2 step (new leaf or split) decrements remainder and then
\* moves the active point: from the root with active_length > 0,
\* active_length drops by 1, the active node stays the root and the active
\* edge symbol is text[i - remainder + 1] for the decremented remainder;
\* otherwise active_length and the active edge symbol of the extension stay
\* and the active node becomes its suffix-link target, the root when it has
\* none, the root staying the root.
C19_ActiveAfterRule2 ==
    [][(pc = "while" /\ last_rule' \in {"rule2_leaf", "rule2_split"}) =>
          /\ remainder' = remainder - 1
          /\ IF active_node = RootId /\ active_length > 0
             THEN /\ active_length' = active_length - 1
                  /\ active_node' = RootId
                  /\ i - remainder' + 1 < N
                  /\ active_edge_char' = T(i - remainder' + 1)
             ELSE /\ active_length' = active_length
                  /\ active_edge_char' = EdgeCharNow
                  /\ active_node' = IF nodes'[active_node].suffix_link # NoNode
                                    THEN nodes'[active_node].suffix_link ELSE RootId
                  /\ active_node = RootId => active_node' = RootId]_vars

C19_Witness ==
    /\ pc = "while" /\ last_rule = "rule2_split"
    /\ active_node = RootId /\ active_length > 0
    /\ active_length = remainder - 1
    /\ active_edge_char = T(i - remainder + 1)
    /\ active_edge_char # T(i - remainder)

\* C20: once phase i has started and until the next one starts, the shared
\* open end is i; after every step every leaf's incoming edge ends at the
\* shared open end and every internal node's at a fixed integer, no node's
\* end ever changes (a split leaves the end of the node below as it was),
\* and the internal node a split creates has a fixed end.
C20_EdgeEnds ==
    [][/\ pc' \in {"while", "phase_end"} => leaf_end' = i'
       /\ \A n \in 2..Len(nodes') :
             IF DOMAIN nodes'[n].children = {}
             THEN nodes'[n].end.ref ELSE ~nodes'[n].end.ref
       /\ \A n \in 2..Len(nodes) : nodes'[n].end = nodes[n].end
       /\ last_rule' = "rule2_split" /\ pc = "while" =>
             /\ ~nodes'[next_id].end.ref
             /\ nodes'[next_id + 1].end.ref]_vars

\* ----------------------------------------------------------- child maps
\* C21: after every step, during and after build(), every entry c -> child
\* of every node's child map has c = text[child.start]; an entry under a
\* symbol the node already had a child for keeps its child, except that a
\* split puts the new internal node in place of the split edge's child
\* under the same symbol.
C21_ChildKeys ==
    [][/\ \A n \in 1..Len(nodes') : \A c \in DOMAIN nodes'[n].children :
             LET child == nodes'[n].children[c]
             IN  /\ nodes'[child].start \in 0..(Len(text') - 1)
                 /\ c = text'[nodes'[child].start + 1]
       /\ \A n \in NodeIds : \A c \in DOMAIN nodes[n].children :
             /\ c \in DOMAIN nodes'[n].children
             /\ \/ nodes'[n].children[c] = nodes[n].children[c]
                \/ /\ pc = "while" /\ last_rule' = "rule2_split"
                   /\ n = active_node /\ c = EdgeCharNow
                   /\ nodes'[n].children[c] = next_id
                   /\ nodes'[next_id].children[text[nodes'[nodes[n].children[c]].start + 1]]
                         = nodes[n].children[c]]_vars

\* ------------------------------------------------------------ remainder
\* Nodes other than the root that have no children.
LeafNodeIds == {n \in NodeIds : n # RootId /\ ~HasChildren(n)}

\* C22: at the end of every phase i, 0 <= remainder <= i + 1 and the tree
\* has i + 1 - remainder leaves; when build() has returned on a text with a
\* unique final sentinel, remainder is 0 and the tree has N leaves.
C22_RemainderCountsPending ==
    /\ pc = "phase_end" =>
          /\ remainder \in 0..(i + 1)
          /\ Cardinality(LeafNodeIds) = i + 1 - remainder
    /\ pc = "done" =>
          /\ remainder = 0
          /\ Cardinality(LeafNodeIds) = N

\* ---------------------------------------------------------- termination
\* C23: build() returns on every text: every iteration of the inner loop
\* decrements remainder, or ends the phase by Rule 3, or moves the active
\* node to one of its children; every phase index is passed once, upwards,
\* and the for loop runs to its end.
C23_BuildTerminates ==
    /\ [][pc = "while" =>
            \/ remainder' = remainder - 1
            \/ last_rule' = "rule3" /\ pc' = "phase_end"
            \/ /\ last_rule' = "walk_down"
               /\ \E c \in DOMAIN nodes[active_node].children :
                     nodes[active_node].children[c] = active_node'
               /\ Len(PathLabel(active_node)') > Len(PathLabel(active_node))]_vars
    /\ [][i' \in {i, i + 1} /\ i' <= N]_vars
    /\ <>(pc = "done" /\ i = N)

C23_Witness == pc = "done" /\ i = N /\ N >= MaxLen /\ Len(nodes) > N + 1

\* ---------------------------------------------------- Huffman merging
\* The order of the queue: lower frequency first; at equal frequency a
\* symbol leaf before a non-leaf, and of two leaves the smaller symbol first.
QueueBefore(x, y) ==
    \/ x.freq < y.freq
    \/ /\ x.freq = y.freq
       /\ \/ x.sym # NoChar /\ y.sym = NoChar
          \/ x.sym # NoChar /\ y.sym # NoChar /\ x.sym < y.sym

Items(heap) == {heap[k] : k \in 1..Len(heap)}

RECURSIVE MergesTakeLeast(_)
\* Every merge step from this queue on removes a least node, then a least
\* node of the rest, and nothing else.
MergesTakeLeast(heap) ==
    IF Len(heap) <= 1 THEN TRUE
    ELSE LET p1 == HeapPop(heap)
             p2 == HeapPop(p1[2])
         IN  /\ p1[1] \in Items(heap)
             /\ \A x \in Items(heap) : ~QueueBefore(x, p1[1])
             /\ Items(p1[2]) = Items(heap) \ {p1[1]}
             /\ \A x \in Items(p1[2]) : ~QueueBefore(x, p2[1])
             /\ Items(p2[2]) = Items(p1[2]) \ {p2[1]}
             /\ MergesTakeLeast(HeapPush(p2[2],
                    HuffNode(p1[1].freq + p2[1].freq, NoChar, p1[1], p2[1])))

RECURSIVE SymbolsBelow(_)
SymbolsBelow(node) ==
    IF node.sym # NoChar THEN {node.sym}
    ELSE SymbolsBelow(node.left) \cup SymbolsBelow(node.right)

RECURSIVE BranchBits(_, _, _)
\* In the code table, the bit at a merged node's depth is 0 for the symbols
\* of the node removed first and 1 for those of the node removed second,
\* and the first is not after the second in the order of the queue.
BranchBits(codes, node, depth) ==
    IF node.sym # NoChar THEN Len(codes[node.sym]) = depth
    ELSE /\ ~QueueBefore(node.right, node.left)
         /\ node.freq = node.left.freq + node.right.freq
         /\ \A c \in SymbolsBelow(node.left) : codes[c][depth + 1] = 0
         /\ \A c \in SymbolsBelow(node.right) : codes[c][depth + 1] = 1
         /\ BranchBits(codes, node.left, depth + 1)
         /\ BranchBits(codes, node.right, depth + 1)

RECURSIVE Repeat(_, _)
Repeat(c, n) == IF n = 0 THEN <<>> ELSE <<c>> \o Repeat(c, n - 1)

RECURSIVE GroupedText(_, _)
\* The symbols of txt grouped by symbol in ascending order: a sequence with
\* the same symbol frequencies as txt.
GroupedText(txt, keys) ==
    IF keys = <<>> THEN <<>>
    ELSE Repeat(Head(keys), Freq(txt, Head(keys))) \o GroupedText(txt, Tail(keys))

\* C24: with two or more distinct symbols every merge step of
\* build_huffman_codes removes the two least nodes of the queue (lower
\* frequency first, a leaf before a non-leaf, the smaller symbol first), the
\* first becomes the "0" branch and the second the "1" branch, and the
\* table is the one obtained from any sequence with the same frequencies.
C24_HuffmanMergeOrder ==
    LET syms == {huff_text[k] : k \in 1..Len(huff_text)}
        queue == Heapify(LeafNodes(huff_text, SortedKeys(syms)))
    IN  (call = "huff_returned" /\ Cardinality(syms) >= 2) =>
            /\ MergesTakeLeast(queue)
            /\ SymbolsBelow(MergeLoop(queue)[1]) = DOMAIN huff_codes
            /\ BranchBits(huff_codes, MergeLoop(queue)[1], 0)
            /\ huff_codes = build_huffman_codes(GroupedText(huff_text, SortedKeys(syms)))

\* A sequence whose merging meets a leaf and a merged node of equal frequency.
C24_Witness ==
    /\ call = "huff_returned"
    /\ Cardinality(DOMAIN huff_codes) >= 3
    /\ \E c, d, e \in DOMAIN huff_codes :
          /\ c # d /\ c # e /\ d # e
          /\ Freq(huff_text, c) = Freq(huff_text, d) + Freq(huff_text, e)
          /\ Len(huff_codes[c]) = 1

\* ------------------------------------------------------ Part II stream
Children(n) == {nodes[n].children[c] : c \in DOMAIN nodes[n].children}

RECURSIVE ByFirstSymbol(_)
\* The nodes of S in ascending order of the first symbol of their edge.
ByFirstSymbol(S) ==
    IF S = {} THEN <<>>
    ELSE LET m == CHOOSE x \in S :
                     \A y \in S : T(nodes[x].start) <= T(nodes[y].start)
         IN  <<m>> \o ByFirstSymbol(S \ {m})

RECURSIVE Visit(_)
RECURSIVE VisitAll(_)
\* The non-root nodes below n, depth-first, children in ascending order of
\* edge first symbol, a node before its subtree.
Visit(n) == <<n>> \o VisitAll(ByFirstSymbol(Children(n)))
VisitAll(seq) == IF seq = <<>> THEN <<>> ELSE Visit(Head(seq)) \o VisitAll(Tail(seq))

\* The 1-based start of the suffix a leaf spells.
SuffixStart(n) == N - Len(PathLabel(n)) + 1

RECURSIVE Emit(_)
RECURSIVE EmitAll(_)
\* What the stream holds for node n: "0", start and end of its edge, then
\* "1" and the suffix start for a leaf, the subtree and "1" otherwise.
Emit(n) ==
    <<0>> \o fibonacci_encode(nodes[n].start + 1)
          \o fibonacci_encode(EndVal(nodes[n], leaf_end) + 1)
          \o (IF ~HasChildren(n)
              THEN <<1>> \o fibonacci_encode(SuffixStart(n))
              ELSE EmitAll(ByFirstSymbol(Children(n))) \o <<1>>)
EmitAll(seq) == IF seq = <<>> THEN <<>> ELSE Emit(Head(seq)) \o EmitAll(Tail(seq))

RECURSIVE LeafStarts(_)
\* The suffix starts of the leaves among the nodes of seq, in that order.
LeafStarts(seq) ==
    IF seq = <<>> THEN <<>>
    ELSE (IF HasChildren(Head(seq)) THEN <<>> ELSE <<SuffixStart(Head(seq))>>)
         \o LeafStarts(Tail(seq))

\* C25: the stream returned for a built tree is, for every non-root node
\* once, depth-first with children in ascending order of edge first symbol,
\* "0", the Fibonacci codes of the 1-based start and end of its edge and one
\* "1" (followed by the Fibonacci code of the suffix start for a leaf, put
\* after the subtree for an internal node), then a last "1"; the suffix
\* starts of the leaves in emission order are the suffix array.
C25_PartIIStream ==
    (pc = "done" /\ part2 # <<>>) =>
        LET order == VisitAll(ByFirstSymbol(Children(RootId)))
        IN  /\ Len(order) = Len(nodes) - 1
            /\ {order[k] : k \in 1..Len(order)} = NodeIds \ {RootId}
            /\ \A k \in 1..Len(order) :
                  nodes[order[k]].start >= 0 /\ SuffixStart(order[k]) >= 1
            /\ part2 = EmitAll(ByFirstSymbol(Children(RootId))) \o <<1>>
            /\ LeafStarts(order) = suffix_array

C25_Witness ==
    /\ pc = "done" /\ part2 # <<>> /\ sa_calls >= 1
    /\ \E n \in Internals : \E m \in Children(n) : HasChildren(m)

\* ------------------------------------------------- Fibonacci bit order
RECURSIVE FibAt(_, _, _)
\* The k-th of the Fibonacci numbers 1, 2, 3, 5, ... (a is the first, b the
\* second of the run counted from).
FibAt(k, a, b) == IF k = 1 THEN a ELSE FibAt(k - 1, b, a + b)

RECURSIVE TopIndex(_, _, _, _)
\* The index of the largest Fibonacci number not above n >= 1 (a is the
\* k-th, b the next).
TopIndex(n, k, a, b) == IF b > n THEN k ELSE TopIndex(n, k + 1, b, a + b)

RECURSIVE Zeckendorf(_)
\* The indices of the Fibonacci numbers of the Zeckendorf representation.
Zeckendorf(n) ==
    IF n = 0 THEN {}
    ELSE LET k == TopIndex(n, 1, 1, 2)
         IN  {k} \cup Zeckendorf(n - FibAt(k, 1, 2))

\* C26 as stated: the bits before the terminating 1 run from the largest
\* Fibonacci number of the Zeckendorf representation of n (first bit) down
\* to the Fibonacci number 1 (last bit before the terminator).
C26_MostSignificantFirst ==
    (call = "fib_returned" /\ fib_n >= 1) =>
        LET top == TopIndex(fib_n, 1, 1, 2)
            used == Zeckendorf(fib_n)
        IN  /\ Len(fib_code) = top + 1
            /\ fib_code[top + 1] = 1
            /\ \A k \in 1..top :
                  fib_code[k] = IF (top - k + 1) \in used THEN 1 ELSE 0

\* C26 amended: the bits before the terminating 1 run from the Fibonacci
\* number 1 (first bit) up to the largest Fibonacci number of the Zeckendorf
\* representation of n (last bit before the terminator, always set); the
\* zero positions above it are removed.
C26_LeastSignificantFirst ==
    (call = "fib_returned" /\ fib_n >= 1) =>
        LET top == TopIndex(fib_n, 1, 1, 2)
            used == Zeckendorf(fib_n)
        IN  /\ Len(fib_code) = top + 1
            /\ fib_code[top + 1] = 1
            /\ \A k \in 1..top :
                  fib_code[k] = IF k \in used THEN 1 ELSE 0

C26_Witness == call = "fib_returned" /\ fib_n = 11 /\ fib_code = <<0, 0, 1, 0, 1, 1>>

====
